---- MODULE Spec2Model ----
(***************************************************************************)
(* A model of the LC-3 virtual machine of src/main.c: image loading, the   *)
(* fetch-execute loop with its sixteen opcodes, the trap routines, the     *)
(* memory-mapped keyboard registers, the terminal mode and the process     *)
(* exit paths.  Words are 16 bits wide and every conversion to uint16_t    *)
(* is a reduction modulo 2^16.                                             *)
(***************************************************************************)
EXTENDS Integers, Sequences, FiniteSets, TLC

(***************************************************************************)
(* Program constants (src/main.c enums and defines).                       *)
(***************************************************************************)
MEMORY_MAX == 65536

R_R0 == 0
R_R7 == 7
R_PC == 8
R_COND == 9
R_COUNT == 10

OP_BR == 0
OP_ADD == 1
OP_LD == 2
OP_ST == 3
OP_JSR == 4
OP_AND == 5
OP_LDR == 6
OP_STR == 7
OP_RTI == 8
OP_NOT == 9
OP_LDI == 10
OP_STI == 11
OP_JMP == 12
OP_RES == 13
OP_LEA == 14
OP_TRAP == 15

FL_POS == 1
FL_ZRO == 2
FL_NEG == 4

TRAP_GETC == 32
TRAP_OUT == 33
TRAP_PUTS == 34
TRAP_IN == 35
TRAP_PUTSP == 36
TRAP_HALT == 37

MR_KBSR == 65024
MR_KBDR == 65026

PC_START == 12288

\* getchar()'s end-of-file result (stdio's EOF).
EOF == -1

(***************************************************************************)
(* Bounds of the model.                                                    *)
(***************************************************************************)
\* Largest number of image arguments on the command line.
MaxArgs == 2
\* Largest number of instructions one run executes.
MaxSteps == 8

(***************************************************************************)
(* 16-bit arithmetic and the C bit operators.                              *)
(***************************************************************************)
\* Conversion of an int to uint16_t.
U16(x) == ((x % MEMORY_MAX) + MEMORY_MAX) % MEMORY_MAX

\* Conversion of an int to unsigned char (what putc writes).
U8(x) == ((x % 256) + 256) % 256

RECURSIVE Pow2(_)
Pow2(k) == IF k = 0 THEN 1 ELSE 2 * Pow2(k - 1)

\* x >> k and x << k on non-negative ints.
ShiftRight(x, k) == x \div Pow2(k)
ShiftLeft(x, k) == x * Pow2(k)

RECURSIVE BitAnd(_, _)
BitAnd(a, b) ==
    IF a = 0 \/ b = 0 THEN 0
    ELSE ((a % 2) * (b % 2)) + 2 * BitAnd(a \div 2, b \div 2)

RECURSIVE BitOr(_, _)
BitOr(a, b) ==
    IF a = 0 THEN b
    ELSE IF b = 0 THEN a
    ELSE (IF (a % 2) + (b % 2) > 0 THEN 1 ELSE 0) + 2 * BitOr(a \div 2, b \div 2)

\* ~x on a uint16_t, converted back to uint16_t.
BitNot16(x) == U16((MEMORY_MAX - 1) - x)

\* sign_extend testing bit bit_count instead of bit bit_count - 1.
sign_extend_next_bit(x, bit_count) ==
    IF BitAnd(ShiftRight(x, bit_count), 1) # 0
    THEN U16(BitOr(x, ShiftLeft(65535, bit_count)))
    ELSE x

sign_extend(x, bit_count) ==
    IF BitAnd(ShiftRight(x, bit_count - 1), 1) # 0
    THEN U16(BitOr(x, ShiftLeft(65535, bit_count)))
    ELSE x

swap16(x) == U16(BitOr(ShiftLeft(x, 8), ShiftRight(x, 8)))

(***************************************************************************)
(* The address space.  memory[] is a zero-initialised global of MEMORY_MAX *)
(* words; it is kept as the function of its non-zero cells, every other    *)
(* cell reading 0.                                                         *)
(***************************************************************************)
MemAt(m, a) == IF a \in DOMAIN m THEN m[a] ELSE 0

MemPut(m, a, v) ==
    IF v = 0
    THEN [x \in (DOMAIN m) \ {a} |-> m[x]]
    ELSE [x \in (DOMAIN m) \cup {a} |-> IF x = a THEN v ELSE m[x]]

EmptyMemory == [x \in {} |-> 0]

(***************************************************************************)
(* Register file.                                                          *)
(***************************************************************************)
\* update_flags with the flag or-ed into R_COND instead of assigned.
update_flags_or(rg, r) ==
    IF rg[r] = 0
    THEN [rg EXCEPT ![R_COND] = BitOr(@, FL_ZRO)]
    ELSE IF ShiftRight(rg[r], 15) # 0
         THEN [rg EXCEPT ![R_COND] = BitOr(@, FL_NEG)]
         ELSE [rg EXCEPT ![R_COND] = BitOr(@, FL_POS)]

\* update_flags without the test of bit 15.
update_flags_unsigned(rg, r) ==
    IF rg[r] = 0
    THEN [rg EXCEPT ![R_COND] = FL_ZRO]
    ELSE [rg EXCEPT ![R_COND] = FL_POS]

update_flags(rg, r) ==
    IF rg[r] = 0
    THEN [rg EXCEPT ![R_COND] = FL_ZRO]
    ELSE IF ShiftRight(rg[r], 15) # 0
         THEN [rg EXCEPT ![R_COND] = FL_NEG]
         ELSE [rg EXCEPT ![R_COND] = FL_POS]

(***************************************************************************)
(* Instruction words, built field by field as the decoder of main() takes  *)
(* them apart.  Field(v, n) is the n-bit two's-complement pattern of v.    *)
(***************************************************************************)
Field(v, n) == (v + Pow2(n)) % Pow2(n)

ADDr(dr, sr1, sr2) == OP_ADD * 4096 + dr * 512 + sr1 * 64 + sr2
ADDi(dr, sr1, imm) == OP_ADD * 4096 + dr * 512 + sr1 * 64 + 32 + Field(imm, 5)
ANDr(dr, sr1, sr2) == OP_AND * 4096 + dr * 512 + sr1 * 64 + sr2
ANDi(dr, sr1, imm) == OP_AND * 4096 + dr * 512 + sr1 * 64 + 32 + Field(imm, 5)
NOTr(dr, sr) == OP_NOT * 4096 + dr * 512 + sr * 64 + 63
BRc(nzp, off) == OP_BR * 4096 + nzp * 512 + Field(off, 9)
JMPr(base) == OP_JMP * 4096 + base * 64
JSRo(off) == OP_JSR * 4096 + 2048 + Field(off, 11)
JSRRr(base) == OP_JSR * 4096 + base * 64
LDo(dr, off) == OP_LD * 4096 + dr * 512 + Field(off, 9)
LDIo(dr, off) == OP_LDI * 4096 + dr * 512 + Field(off, 9)
LDRo(dr, base, off) == OP_LDR * 4096 + dr * 512 + base * 64 + Field(off, 6)
LEAo(dr, off) == OP_LEA * 4096 + dr * 512 + Field(off, 9)
STo(sr, off) == OP_ST * 4096 + sr * 512 + Field(off, 9)
STIo(sr, off) == OP_STI * 4096 + sr * 512 + Field(off, 9)
STRo(sr, base, off) == OP_STR * 4096 + sr * 512 + base * 64 + Field(off, 6)
TRAPv(vec) == OP_TRAP * 4096 + vec

(***************************************************************************)
(* Image files: the command-line arguments name these.  A file holds a     *)
(* big-endian origin word followed by big-endian words.                    *)
(***************************************************************************)
RECURSIVE BigEndian(_)
BigEndian(ws) ==
    IF ws = <<>> THEN <<>>
    ELSE <<Head(ws) \div 256, Head(ws) % 256>> \o BigEndian(Tail(ws))

Image(path, origin, words) ==
    [path |-> path, openable |-> TRUE, readable |-> TRUE,
     origin |-> origin, words |-> words,
     bytes |-> BigEndian(<<origin>> \o words)]

\* Arithmetic: 5, 2, ~2, 0, a sum that wraps, a negative immediate.
ImgArith ==
    Image(<<97>>, PC_START,
          << ADDi(0, 0, 5), ADDi(1, 0, -3), NOTr(2, 1), ANDr(3, 2, 1),
             ADDr(2, 2, 2), ANDi(4, 2, -1), TRAPv(TRAP_HALT) >>)

\* Loads and stores in every addressing mode.
ImgMem ==
    Image(<<98>>, PC_START,
          << LDo(1, 7), LDIo(2, 7), LEAo(3, 5), LDRo(4, 3, 2), STo(1, 6),
             STRo(2, 3, 4), STIo(1, 2), TRAPv(TRAP_HALT),
             32769, PC_START + 10, 42, 0 >>)

\* Reads of the keyboard status and data registers.
ImgKbd ==
    Image(<<99>>, PC_START,
          << LDo(3, 4), LDRo(0, 3, 0), LDRo(1, 3, 2), LDIo(2, 1),
             TRAPv(TRAP_HALT), MR_KBSR >>)

\* Character traps and a vector outside the trap table.
ImgTraps ==
    Image(<<100>>, PC_START,
          << TRAPv(TRAP_GETC), TRAPv(TRAP_OUT), TRAPv(TRAP_IN),
             TRAPv(TRAP_OUT), TRAPv(38), TRAPv(TRAP_HALT) >>)

\* String traps on a zero-terminated string.
ImgStr ==
    Image(<<101>>, PC_START,
          << LEAo(0, 3), TRAPv(TRAP_PUTS), TRAPv(TRAP_PUTSP),
             TRAPv(TRAP_HALT), 16706, 67, 0 >>)

\* String traps on a string that reaches the last cell of memory.
ImgLast ==
    Image(<<102>>, PC_START,
          << ADDi(0, 0, -1), STRo(0, 0, 0), TRAPv(TRAP_PUTS),
             TRAPv(TRAP_PUTSP), TRAPv(TRAP_HALT) >>)

\* The two unused opcodes.
ImgRTI == Image(<<103>>, PC_START, << OP_RTI * 4096 >>)

ImgRES == Image(<<104>>, PC_START, << ADDi(0, 0, 1), OP_RES * 4096 >>)

\* Branches, JSR, JMP.
ImgCtl ==
    Image(<<105>>, PC_START,
          << JSRo(1), TRAPv(TRAP_HALT), BRc(2, 1), OP_RES * 4096,
             ADDi(1, 1, -1), BRc(1, 5), LEAo(2, -6), JMPr(2) >>)

\* JSRR, with R7 and with another base register.
ImgCtl2 ==
    Image(<<106>>, PC_START,
          << JSRRr(7), LEAo(3, 1), JSRRr(3), TRAPv(TRAP_HALT) >>)

\* The destination registers R5, R6, R7, DR equal to SR1.
ImgRegs ==
    Image(<<111>>, PC_START,
          << ADDi(5, 5, -16), NOTr(6, 5), ADDr(6, 6, 6), LEAo(7, -4),
             ANDi(7, 7, 0), NOTr(7, 7), TRAPv(TRAP_HALT) >>)

\* ADD and AND with DR equal to SR2 only.
ImgAlias ==
    Image(<<113>>, PC_START,
          << ADDi(1, 1, 3), ADDi(2, 2, -6), ADDr(2, 1, 2), ANDr(1, 2, 1),
             ANDi(3, 2, 12), TRAPv(TRAP_HALT) >>)

\* BR with the masks 111 and 000, a mask of two bits that misses the flag,
\* and a backward branch that is taken.
ImgBr ==
    Image(<<114>>, PC_START,
          << BRc(7, 2), TRAPv(TRAP_HALT), OP_RES * 4096, BRc(0, -3),
             ADDi(0, 0, -1), BRc(3, -4), BRc(4, -6) >>)

\* JSR backwards and JMP through R7.
ImgRet ==
    Image(<<115>>, PC_START,
          << BRc(7, 1), JMPr(7), JSRo(-2), TRAPv(TRAP_HALT) >>)

\* LDI below PC_START: the program stores 0x4000 over its first word and
\* 0x002A at 0x4000, then runs the two LDI at 0x2FFE and 0x2FFF.
ImgLdi ==
    Image(<<116>>, PC_START - 2,
          << LDIo(1, 1), LDIo(2, 1),
             LDo(2, 4), LDo(3, 4), STRo(3, 2, 0), STo(2, -4), BRc(7, -7),
             16384, 42 >>)

\* Addresses that wrap: an LD run from the last cell, LDR and STR past it.
ImgWrap ==
    Image(<<117>>, PC_START,
          << ADDi(0, 0, -1), LDo(1, 4), STRo(1, 0, 0), STRo(0, 0, 3),
             LDRo(3, 0, 3), JMPr(0), LDo(2, -1) >>)

\* An STI placed at 0xFDFF, so that its pointer is read from MR_KBSR and
\* the next instruction is fetched from there.
ImgSti ==
    Image(<<118>>, PC_START,
          << LDo(2, 3), LDo(1, 3), STRo(1, 2, 0), JMPr(2),
             MR_KBSR - 1, STIo(1, 0) >>)

\* The string traps on an empty string, vectors outside the trap table,
\* and trap words with bits 8..11 set.
ImgVec ==
    Image(<<119>>, PC_START,
          << TRAPv(TRAP_PUTS), TRAPv(TRAP_PUTSP), TRAPv(0), TRAPv(31),
             TRAPv(255), TRAPv(38 + 256), TRAPv(TRAP_HALT + 512) >>)

\* A patch over the second and third word of a program.
ImgPatch == Image(<<112>>, PC_START + 1, << TRAPv(TRAP_HALT), 7 >>)

\* Data images at the two ends of the address space.
ImgLow == Image(<<107>>, 0, << 4660, 22136 >>)

ImgHigh == Image(<<108>>, MEMORY_MAX - 2, << 65, 66 >>)

\* A path that fopen cannot open, and one that opens but cannot be read
\* (a directory): every fread on it returns 0.
FileMissing ==
    [path |-> <<109>>, openable |-> FALSE, readable |-> FALSE,
     origin |-> 0, words |-> <<>>, bytes |-> <<>>]

FileUnreadable ==
    [path |-> <<110>>, openable |-> TRUE, readable |-> FALSE,
     origin |-> 0, words |-> <<>>, bytes |-> <<>>]

Files ==
    << ImgArith, ImgMem, ImgKbd, ImgTraps, ImgStr, ImgLast, ImgRTI, ImgRES,
       ImgCtl, ImgCtl2, ImgLow, ImgHigh, FileMissing, FileUnreadable,
       ImgRegs, ImgPatch, ImgAlias, ImgBr, ImgRet, ImgLdi, ImgWrap,
       ImgSti, ImgVec >>

\* argv[1..argc-1]: indices into Files.
ArgLists == UNION { [1 .. n -> 1 .. Len(Files)] : n \in 0 .. MaxArgs }

\* Bytes the keyboard can deliver, and what getchar() can return.
InputBytes == {0, 65, 127, 128, 200, 255}

GetcharResults == InputBytes \cup {EOF}

(***************************************************************************)
(* State.                                                                  *)
(***************************************************************************)
VARIABLES
    argv,          \* the image arguments, as indices into Files
    charSigned,    \* whether plain char is signed in this build
    status,        \* where the process is: "start", "loading", "running",
                   \* or how it ended
    j,             \* main's loop index over the arguments
    memory,        \* the address space
    reg,           \* the register file, R_R0 .. R_COND
    tio,           \* the terminal's current input mode
    original_tio,  \* the mode saved by disable_input_buffering
    sigint,        \* whether handle_interrupt is installed
    exitCode,      \* <<c>> once the process has exited with status c
    instr,         \* the instruction word of the last fetch
    steps,         \* instructions executed so far
    io,            \* keyboard events of the last step, in order
    accessed,      \* cell indices of memory[] used by the last step
    out,           \* bytes written to stdout
    sx             \* a call of sign_extend on its own: arguments and result

vars ==
    << argv, charSigned, status, j, memory, reg, tio, original_tio, sigint,
       exitCode, instr, steps, io, accessed, out, sx >>

Cooked == [ICANON |-> TRUE, ECHO |-> TRUE]

\* "lc3 [image-file1] ...\n"
UsageMsg ==
    << 108, 99, 51, 32, 91, 105, 109, 97, 103, 101, 45, 102, 105, 108, 101,
       49, 93, 32, 46, 46, 46, 10 >>

\* "failed to load image: %s\n"
FailMsg(path) ==
    << 102, 97, 105, 108, 101, 100, 32, 116, 111, 32, 108, 111, 97, 100, 32,
       105, 109, 97, 103, 101, 58, 32 >> \o path \o << 10 >>

\* "Enter a character: "
PromptMsg ==
    << 69, 110, 116, 101, 114, 32, 97, 32, 99, 104, 97, 114, 97, 99, 116,
       101, 114, 58, 32 >>

\* puts("HALT")
HaltMsg == << 72, 65, 76, 84, 10 >>

\* No call of sign_extend on its own is under way.
NoCall == [x |-> 0, bit_count |-> 0, ret |-> <<>>]

Init ==
    /\ argv \in ArgLists
    /\ charSigned \in BOOLEAN
    /\ status = "start"
    /\ j = 1
    /\ memory = EmptyMemory
    /\ reg = [r \in 0 .. (R_COUNT - 1) |-> 0]
    /\ tio = Cooked
    /\ original_tio = [ICANON |-> FALSE, ECHO |-> FALSE]
    /\ sigint = FALSE
    /\ exitCode = <<>>
    /\ instr = 0
    /\ steps = 0
    /\ io = <<>>
    /\ accessed = {}
    /\ out = <<>>
    /\ sx = NoCall

(***************************************************************************)
(* Image loading.                                                          *)
(***************************************************************************)
\* The uint16_t that fread stores for two file bytes (little-endian host).
HostWord(bytes, i) == bytes[i] + 256 * bytes[i + 1]

Min(a, b) == IF a <= b THEN a ELSE b

\* fread's return value for the words after the origin.
WordsRead(f, origin) ==
    LET max_read == U16(MEMORY_MAX - origin)
    IN Min(max_read, (Len(f.bytes) - 2) \div 2)

RECURSIVE SwapLoaded(_, _, _, _)
\* The while loop of read_image_file: cell p + k gets the swapped k-th word.
SwapLoaded(m, f, p, read) ==
    IF read = 0 THEN m
    ELSE MemPut(SwapLoaded(m, f, p, read - 1), p + (read - 1),
                swap16(HostWord(f.bytes, 1 + 2 * read)))

\* A file that cannot be read leaves origin unset and both fread calls
\* return 0: no cell changes whatever origin holds.
read_image_file(m, f) ==
    IF ~f.readable \/ Len(f.bytes) < 2 THEN m
    ELSE LET origin == swap16(HostWord(f.bytes, 1))
         IN SwapLoaded(m, f, origin, WordsRead(f, origin))

read_image(m, f) ==
    IF ~f.openable
    THEN [ok |-> FALSE, mem |-> m]
    ELSE [ok |-> TRUE, mem |-> read_image_file(m, f)]

\* main, lines 275-280: the argument count.
Start ==
    /\ status = "start"
    /\ IF Len(argv) + 1 < 2
       THEN /\ out' = out \o UsageMsg
            /\ status' = "usage"
            /\ exitCode' = <<2>>
       ELSE /\ status' = "loading"
            /\ UNCHANGED <<out, exitCode>>
    /\ UNCHANGED << argv, charSigned, j, memory, reg, tio, original_tio,
                    sigint, instr, steps, io, accessed, sx >>

\* main, lines 282-289: one iteration of the loading loop.
LoadImage ==
    /\ status = "loading"
    /\ j <= Len(argv)
    /\ LET r == read_image(memory, Files[argv[j]])
       IN IF ~r.ok
          THEN /\ out' = out \o FailMsg(Files[argv[j]].path)
               /\ status' = "loadfail"
               /\ exitCode' = <<1>>
               /\ UNCHANGED <<j, memory>>
          ELSE /\ memory' = r.mem
               /\ j' = j + 1
               /\ UNCHANGED <<out, status, exitCode>>
    /\ UNCHANGED << argv, charSigned, reg, tio, original_tio, sigint, instr,
                    steps, io, accessed, sx >>

\* Setup starting the program at the origin of the last image.
Setup_pc_at_origin ==
    /\ status = "loading"
    /\ j > Len(argv)
    /\ sigint' = TRUE
    /\ original_tio' = tio
    /\ tio' = [tio EXCEPT !.ICANON = FALSE, !.ECHO = FALSE]
    /\ reg' = [reg EXCEPT ![R_COND] = FL_ZRO,
                          ![R_PC] = Files[argv[Len(argv)]].origin]
    /\ status' = "running"
    /\ UNCHANGED << argv, charSigned, j, memory, exitCode, instr, steps, io,
                    accessed, out, sx >>

\* main, lines 293-307: signal handler, raw terminal mode, COND and PC.
Setup ==
    /\ status = "loading"
    /\ j > Len(argv)
    /\ sigint' = TRUE
    /\ original_tio' = tio
    /\ tio' = [tio EXCEPT !.ICANON = FALSE, !.ECHO = FALSE]
    /\ reg' = [reg EXCEPT ![R_COND] = FL_ZRO, ![R_PC] = PC_START]
    /\ status' = "running"
    /\ UNCHANGED << argv, charSigned, j, memory, exitCode, instr, steps, io,
                    accessed, out, sx >>

(***************************************************************************)
(* Memory access.  A read of MR_KBSR asks check_key() whether stdin is     *)
(* ready and, if so, takes getchar()'s result; key is that answer.         *)
(***************************************************************************)
NoKey == [kind |-> "none", ready |-> FALSE, ch |-> 0]

\* What check_key() and getchar() can answer to a read of `address`.
KeyInputs(address) ==
    IF address = MR_KBSR
    THEN {[kind |-> "poll", ready |-> FALSE, ch |-> 0]}
         \cup {[kind |-> "poll", ready |-> TRUE, ch |-> c] : c \in GetcharResults}
    ELSE {NoKey}

mem_write(m, addr, val) == MemPut(m, addr, val)

mem_read(m, address, key) ==
    LET m1 == IF address = MR_KBSR
              THEN IF key.ready
                   THEN MemPut(MemPut(m, MR_KBSR, ShiftLeft(1, 15)),
                               MR_KBDR, U16(key.ch))
                   ELSE MemPut(m, MR_KBSR, 0)
              ELSE m
    IN [mem |-> m1,
        val |-> MemAt(m1, address),
        io |-> IF address = MR_KBSR THEN <<key>> ELSE <<>>]

(***************************************************************************)
(* The fetch-execute loop: one action per case of the switch, each a whole *)
(* iteration (fetch, PC increment, decode, execute).                       *)
(***************************************************************************)
Running == status = "running" /\ steps < MaxSteps

\* reg after `reg[R_PC]++`.
RegF == [reg EXCEPT ![R_PC] = U16(@ + 1)]

\* The iteration ends and the loop goes on.
Continue(ins, rg, m, ev, acc, o) ==
    /\ instr' = ins
    /\ reg' = rg
    /\ memory' = m
    /\ io' = ev
    /\ accessed' = acc
    /\ out' = o
    /\ steps' = steps + 1
    /\ UNCHANGED << argv, charSigned, status, j, tio, original_tio, sigint,
                    exitCode, sx >>

\* The iteration ends the process: how, the terminal mode and exit status.
Leave(ins, rg, m, ev, acc, o, how, t, code) ==
    /\ instr' = ins
    /\ reg' = rg
    /\ memory' = m
    /\ io' = ev
    /\ accessed' = acc
    /\ out' = o
    /\ steps' = steps + 1
    /\ status' = how
    /\ tio' = t
    /\ exitCode' = code
    /\ UNCHANGED << argv, charSigned, j, original_tio, sigint, sx >>

DR(ins) == BitAnd(ShiftRight(ins, 9), 7)
SR1(ins) == BitAnd(ShiftRight(ins, 6), 7)
Opcode(ins) == ShiftRight(ins, 12)

\* ADD with the immediate taken as an unsigned 5-bit number.
ExecADD_imm_unsigned ==
    /\ Running
    /\ \E k \in KeyInputs(reg[R_PC]) :
         LET f == mem_read(memory, reg[R_PC], k)
             ins == f.val
             r0 == DR(ins)
             r1 == SR1(ins)
             imm_flag == BitAnd(ShiftRight(ins, 5), 1)
             rg == IF imm_flag # 0
                   THEN [RegF EXCEPT ![r0] = U16(RegF[r1] + BitAnd(ins, 31))]
                   ELSE [RegF EXCEPT ![r0] =
                            U16(RegF[r1] + RegF[BitAnd(ins, 7)])]
         IN /\ Opcode(ins) = OP_ADD
            /\ Continue(ins, update_flags(rg, r0), f.mem, f.io,
                        {reg[R_PC]}, out)

ExecADD ==
    /\ Running
    /\ \E k \in KeyInputs(reg[R_PC]) :
         LET f == mem_read(memory, reg[R_PC], k)
             ins == f.val
             r0 == DR(ins)
             r1 == SR1(ins)
             imm_flag == BitAnd(ShiftRight(ins, 5), 1)
             rg == IF imm_flag # 0
                   THEN [RegF EXCEPT ![r0] =
                            U16(RegF[r1] + sign_extend(BitAnd(ins, 31), 5))]
                   ELSE [RegF EXCEPT ![r0] =
                            U16(RegF[r1] + RegF[BitAnd(ins, 7)])]
         IN /\ Opcode(ins) = OP_ADD
            /\ Continue(ins, update_flags(rg, r0), f.mem, f.io,
                        {reg[R_PC]}, out)

ExecAND ==
    /\ Running
    /\ \E k \in KeyInputs(reg[R_PC]) :
         LET f == mem_read(memory, reg[R_PC], k)
             ins == f.val
             r0 == DR(ins)
             r1 == SR1(ins)
             imm_flag == BitAnd(ShiftRight(ins, 5), 1)
             rg == IF imm_flag # 0
                   THEN [RegF EXCEPT ![r0] =
                            BitAnd(RegF[r1], sign_extend(BitAnd(ins, 31), 5))]
                   ELSE [RegF EXCEPT ![r0] =
                            BitAnd(RegF[r1], RegF[BitAnd(ins, 7)])]
         IN /\ Opcode(ins) = OP_AND
            /\ Continue(ins, update_flags(rg, r0), f.mem, f.io,
                        {reg[R_PC]}, out)

ExecNOT ==
    /\ Running
    /\ \E k \in KeyInputs(reg[R_PC]) :
         LET f == mem_read(memory, reg[R_PC], k)
             ins == f.val
             r0 == DR(ins)
             r1 == SR1(ins)
             rg == [RegF EXCEPT ![r0] = BitNot16(RegF[r1])]
         IN /\ Opcode(ins) = OP_NOT
            /\ Continue(ins, update_flags(rg, r0), f.mem, f.io,
                        {reg[R_PC]}, out)

\* BR adding the offset to the address the instruction was fetched from.
ExecBR_from_fetch_address ==
    /\ Running
    /\ \E k \in KeyInputs(reg[R_PC]) :
         LET f == mem_read(memory, reg[R_PC], k)
             ins == f.val
             pc_offset == sign_extend(BitAnd(ins, 511), 9)
             cond_flag == BitAnd(ShiftRight(ins, 9), 7)
             rg == IF BitAnd(cond_flag, RegF[R_COND]) # 0
                   THEN [RegF EXCEPT ![R_PC] = U16(reg[R_PC] + pc_offset)]
                   ELSE RegF
         IN /\ Opcode(ins) = OP_BR
            /\ Continue(ins, rg, f.mem, f.io, {reg[R_PC]}, out)

ExecBR ==
    /\ Running
    /\ \E k \in KeyInputs(reg[R_PC]) :
         LET f == mem_read(memory, reg[R_PC], k)
             ins == f.val
             pc_offset == sign_extend(BitAnd(ins, 511), 9)
             cond_flag == BitAnd(ShiftRight(ins, 9), 7)
             rg == IF BitAnd(cond_flag, RegF[R_COND]) # 0
                   THEN [RegF EXCEPT ![R_PC] = U16(@ + pc_offset)]
                   ELSE RegF
         IN /\ Opcode(ins) = OP_BR
            /\ Continue(ins, rg, f.mem, f.io, {reg[R_PC]}, out)

ExecJMP ==
    /\ Running
    /\ \E k \in KeyInputs(reg[R_PC]) :
         LET f == mem_read(memory, reg[R_PC], k)
             ins == f.val
             r1 == SR1(ins)
             rg == [RegF EXCEPT ![R_PC] = RegF[r1]]
         IN /\ Opcode(ins) = OP_JMP
            /\ Continue(ins, rg, f.mem, f.io, {reg[R_PC]}, out)

\* JSRR reading the base register before R7 is written.
ExecJSR_base_before_link ==
    /\ Running
    /\ \E k \in KeyInputs(reg[R_PC]) :
         LET f == mem_read(memory, reg[R_PC], k)
             ins == f.val
             long_flag == BitAnd(ShiftRight(ins, 11), 1)
             r7 == [RegF EXCEPT ![R_R7] = RegF[R_PC]]
             rg == IF long_flag # 0
                   THEN [r7 EXCEPT ![R_PC] =
                            U16(@ + sign_extend(BitAnd(ins, 2047), 11))]
                   ELSE [r7 EXCEPT ![R_PC] = RegF[SR1(ins)]]
         IN /\ Opcode(ins) = OP_JSR
            /\ Continue(ins, rg, f.mem, f.io, {reg[R_PC]}, out)

ExecJSR ==
    /\ Running
    /\ \E k \in KeyInputs(reg[R_PC]) :
         LET f == mem_read(memory, reg[R_PC], k)
             ins == f.val
             long_flag == BitAnd(ShiftRight(ins, 11), 1)
             r7 == [RegF EXCEPT ![R_R7] = RegF[R_PC]]
             rg == IF long_flag # 0
                   THEN [r7 EXCEPT ![R_PC] =
                            U16(@ + sign_extend(BitAnd(ins, 2047), 11))]
                   ELSE [r7 EXCEPT ![R_PC] = r7[SR1(ins)]]
         IN /\ Opcode(ins) = OP_JSR
            /\ Continue(ins, rg, f.mem, f.io, {reg[R_PC]}, out)

ExecLD ==
    /\ Running
    /\ \E k \in KeyInputs(reg[R_PC]) :
         LET f == mem_read(memory, reg[R_PC], k)
             ins == f.val
             r0 == DR(ins)
             a == U16(RegF[R_PC] + sign_extend(BitAnd(ins, 511), 9))
         IN /\ Opcode(ins) = OP_LD
            /\ \E k2 \in KeyInputs(a) :
                 LET d == mem_read(f.mem, a, k2)
                 IN Continue(ins,
                             update_flags([RegF EXCEPT ![r0] = d.val], r0),
                             d.mem, f.io \o d.io, {reg[R_PC], a}, out)

\* LDI adding the offset to the address the instruction was fetched from.
ExecLDI_from_fetch_address ==
    /\ Running
    /\ \E k \in KeyInputs(reg[R_PC]) :
         LET f == mem_read(memory, reg[R_PC], k)
             ins == f.val
             r0 == DR(ins)
             a == U16(reg[R_PC] + sign_extend(BitAnd(ins, 511), 9))
         IN /\ Opcode(ins) = OP_LDI
            /\ \E k2 \in KeyInputs(a) :
                 LET p == mem_read(f.mem, a, k2)
                 IN \E k3 \in KeyInputs(p.val) :
                      LET d == mem_read(p.mem, p.val, k3)
                      IN Continue(ins,
                                  update_flags([RegF EXCEPT ![r0] = d.val], r0),
                                  d.mem, f.io \o p.io \o d.io,
                                  {reg[R_PC], a, p.val}, out)

ExecLDI ==
    /\ Running
    /\ \E k \in KeyInputs(reg[R_PC]) :
         LET f == mem_read(memory, reg[R_PC], k)
             ins == f.val
             r0 == DR(ins)
             a == U16(RegF[R_PC] + sign_extend(BitAnd(ins, 511), 9))
         IN /\ Opcode(ins) = OP_LDI
            /\ \E k2 \in KeyInputs(a) :
                 LET p == mem_read(f.mem, a, k2)
                 IN \E k3 \in KeyInputs(p.val) :
                      LET d == mem_read(p.mem, p.val, k3)
                      IN Continue(ins,
                                  update_flags([RegF EXCEPT ![r0] = d.val], r0),
                                  d.mem, f.io \o p.io \o d.io,
                                  {reg[R_PC], a, p.val}, out)

ExecLDR ==
    /\ Running
    /\ \E k \in KeyInputs(reg[R_PC]) :
         LET f == mem_read(memory, reg[R_PC], k)
             ins == f.val
             r0 == DR(ins)
             r1 == SR1(ins)
             a == U16(RegF[r1] + sign_extend(BitAnd(ins, 63), 6))
         IN /\ Opcode(ins) = OP_LDR
            /\ \E k2 \in KeyInputs(a) :
                 LET d == mem_read(f.mem, a, k2)
                 IN Continue(ins,
                             update_flags([RegF EXCEPT ![r0] = d.val], r0),
                             d.mem, f.io \o d.io, {reg[R_PC], a}, out)

ExecLEA ==
    /\ Running
    /\ \E k \in KeyInputs(reg[R_PC]) :
         LET f == mem_read(memory, reg[R_PC], k)
             ins == f.val
             r0 == DR(ins)
             rg == [RegF EXCEPT ![r0] =
                       U16(RegF[R_PC] + sign_extend(BitAnd(ins, 511), 9))]
         IN /\ Opcode(ins) = OP_LEA
            /\ Continue(ins, update_flags(rg, r0), f.mem, f.io,
                        {reg[R_PC]}, out)

\* ST followed by update_flags on the stored register.
ExecST_sets_flags ==
    /\ Running
    /\ \E k \in KeyInputs(reg[R_PC]) :
         LET f == mem_read(memory, reg[R_PC], k)
             ins == f.val
             r0 == DR(ins)
             a == U16(RegF[R_PC] + sign_extend(BitAnd(ins, 511), 9))
         IN /\ Opcode(ins) = OP_ST
            /\ Continue(ins, update_flags(RegF, r0),
                        mem_write(f.mem, a, RegF[r0]), f.io,
                        {reg[R_PC], a}, out)

ExecST ==
    /\ Running
    /\ \E k \in KeyInputs(reg[R_PC]) :
         LET f == mem_read(memory, reg[R_PC], k)
             ins == f.val
             r0 == DR(ins)
             a == U16(RegF[R_PC] + sign_extend(BitAnd(ins, 511), 9))
         IN /\ Opcode(ins) = OP_ST
            /\ Continue(ins, RegF, mem_write(f.mem, a, RegF[r0]), f.io,
                        {reg[R_PC], a}, out)

\* STI storing at the cell that holds the pointer.
ExecSTI_direct ==
    /\ Running
    /\ \E k \in KeyInputs(reg[R_PC]) :
         LET f == mem_read(memory, reg[R_PC], k)
             ins == f.val
             r0 == DR(ins)
             a == U16(RegF[R_PC] + sign_extend(BitAnd(ins, 511), 9))
         IN /\ Opcode(ins) = OP_STI
            /\ \E k2 \in KeyInputs(a) :
                 LET p == mem_read(f.mem, a, k2)
                 IN Continue(ins, RegF, mem_write(p.mem, a, RegF[r0]),
                             f.io \o p.io, {reg[R_PC], a, p.val}, out)

ExecSTI ==
    /\ Running
    /\ \E k \in KeyInputs(reg[R_PC]) :
         LET f == mem_read(memory, reg[R_PC], k)
             ins == f.val
             r0 == DR(ins)
             a == U16(RegF[R_PC] + sign_extend(BitAnd(ins, 511), 9))
         IN /\ Opcode(ins) = OP_STI
            /\ \E k2 \in KeyInputs(a) :
                 LET p == mem_read(f.mem, a, k2)
                 IN Continue(ins, RegF, mem_write(p.mem, p.val, RegF[r0]),
                             f.io \o p.io, {reg[R_PC], a, p.val}, out)

ExecSTR ==
    /\ Running
    /\ \E k \in KeyInputs(reg[R_PC]) :
         LET f == mem_read(memory, reg[R_PC], k)
             ins == f.val
             r0 == DR(ins)
             r1 == SR1(ins)
             a == U16(RegF[r1] + sign_extend(BitAnd(ins, 63), 6))
         IN /\ Opcode(ins) = OP_STR
            /\ Continue(ins, RegF, mem_write(f.mem, a, RegF[r0]), f.io,
                        {reg[R_PC], a}, out)

\* The reserved opcodes as a case that only breaks out of the switch.
ExecReserved_nop ==
    /\ Running
    /\ \E k \in KeyInputs(reg[R_PC]) :
         LET f == mem_read(memory, reg[R_PC], k)
             ins == f.val
         IN /\ Opcode(ins) \in {OP_RES, OP_RTI}
            /\ Continue(ins, RegF, f.mem, f.io, {reg[R_PC]}, out)

\* case OP_RES, OP_RTI, default: abort() raises SIGABRT; no handler is
\* installed for it and nothing runs after it.
ExecReserved ==
    /\ Running
    /\ \E k \in KeyInputs(reg[R_PC]) :
         LET f == mem_read(memory, reg[R_PC], k)
             ins == f.val
         IN /\ Opcode(ins) \in {OP_RES, OP_RTI}
            /\ Leave(ins, RegF, f.mem, f.io, {reg[R_PC]}, out,
                     "aborted", tio, exitCode)

(***************************************************************************)
(* Traps.  Every trap first stores the incremented PC in R7.               *)
(***************************************************************************)
RegT == [RegF EXCEPT ![R_R7] = RegF[R_PC]]

TrapVector(ins) == BitAnd(ins, 255)

\* The value of a plain char holding getchar()'s result c.
ToChar(c) ==
    LET b == U8(c)
    IN IF charSigned /\ b >= 128 THEN b - 256 ELSE b

RECURSIVE StrWords(_, _)
\* The non-zero words the scan `while (*c) ++c` passes from cell c on,
\* up to the end of memory[].
StrWords(m, c) ==
    IF c >= MEMORY_MAX THEN <<>>
    ELSE IF MemAt(m, c) = 0 THEN <<>>
    ELSE <<MemAt(m, c)>> \o StrWords(m, c + 1)

\* A scan that finds no zero word up to memory[MEMORY_MAX - 1] goes on
\* reading behind the array, which is undefined: the process is killed
\* (SIGSEGV), or it reads whatever words lie there up to a zero one.
NoOverrun == [segv |-> FALSE, words |-> <<>>]

OverrunOutcomes ==
    { [segv |-> TRUE, words |-> <<>>],
      [segv |-> FALSE, words |-> <<>>],
      [segv |-> FALSE, words |-> <<66>>] }

ScanOutcomes(m, c) ==
    IF c + Len(StrWords(m, c)) >= MEMORY_MAX THEN OverrunOutcomes
    ELSE {NoOverrun}

\* Every index c takes in the scan, the index of the ending word included.
ScanCells(m, c, over) == c .. (c + Len(StrWords(m, c)) + Len(over.words))

PutsBytes(ws) == [i \in 1 .. Len(ws) |-> U8(ws[i])]

RECURSIVE PutspBytes(_)
PutspBytes(ws) ==
    IF ws = <<>> THEN <<>>
    ELSE LET char1 == BitAnd(Head(ws), 255)
             char2 == ShiftRight(Head(ws), 8)
         IN <<U8(char1)>> \o (IF char2 # 0 THEN <<U8(char2)>> ELSE <<>>)
            \o PutspBytes(Tail(ws))

TrapGETC ==
    /\ Running
    /\ \E k \in KeyInputs(reg[R_PC]) :
         LET f == mem_read(memory, reg[R_PC], k)
             ins == f.val
         IN /\ Opcode(ins) = OP_TRAP
            /\ TrapVector(ins) = TRAP_GETC
            /\ \E c \in GetcharResults :
                 Continue(ins,
                          update_flags([RegT EXCEPT ![R_R0] = U16(c)], R_R0),
                          f.mem,
                          f.io \o <<[kind |-> "getchar", ready |-> TRUE, ch |-> c]>>,
                          {reg[R_PC]}, out)

TrapOUT ==
    /\ Running
    /\ \E k \in KeyInputs(reg[R_PC]) :
         LET f == mem_read(memory, reg[R_PC], k)
             ins == f.val
         IN /\ Opcode(ins) = OP_TRAP
            /\ TrapVector(ins) = TRAP_OUT
            /\ Continue(ins, RegT, f.mem, f.io, {reg[R_PC]},
                        out \o <<U8(RegT[R_R0])>>)

TrapPUTS ==
    /\ Running
    /\ \E k \in KeyInputs(reg[R_PC]) :
         LET f == mem_read(memory, reg[R_PC], k)
             ins == f.val
             c == RegT[R_R0]
         IN /\ Opcode(ins) = OP_TRAP
            /\ TrapVector(ins) = TRAP_PUTS
            /\ \E over \in ScanOutcomes(f.mem, c) :
                 LET ws == StrWords(f.mem, c) \o over.words
                     cells == {reg[R_PC]} \cup ScanCells(f.mem, c, over)
                 IN IF over.segv
                    THEN Leave(ins, RegT, f.mem, f.io, cells, out,
                               "crashed", tio, exitCode)
                    ELSE Continue(ins, RegT, f.mem, f.io, cells,
                                  out \o PutsBytes(ws))

TrapIN ==
    /\ Running
    /\ \E k \in KeyInputs(reg[R_PC]) :
         LET f == mem_read(memory, reg[R_PC], k)
             ins == f.val
         IN /\ Opcode(ins) = OP_TRAP
            /\ TrapVector(ins) = TRAP_IN
            /\ \E g \in GetcharResults :
                 LET c == ToChar(g)
                 IN Continue(ins,
                             update_flags([RegT EXCEPT ![R_R0] = U16(c)], R_R0),
                             f.mem,
                             f.io \o <<[kind |-> "getchar", ready |-> TRUE, ch |-> g]>>,
                             {reg[R_PC]},
                             out \o PromptMsg \o <<U8(c)>>)

TrapPUTSP ==
    /\ Running
    /\ \E k \in KeyInputs(reg[R_PC]) :
         LET f == mem_read(memory, reg[R_PC], k)
             ins == f.val
             c == RegT[R_R0]
         IN /\ Opcode(ins) = OP_TRAP
            /\ TrapVector(ins) = TRAP_PUTSP
            /\ \E over \in ScanOutcomes(f.mem, c) :
                 LET ws == StrWords(f.mem, c) \o over.words
                     cells == {reg[R_PC]} \cup ScanCells(f.mem, c, over)
                 IN IF over.segv
                    THEN Leave(ins, RegT, f.mem, f.io, cells, out,
                               "crashed", tio, exitCode)
                    ELSE Continue(ins, RegT, f.mem, f.io, cells,
                                  out \o PutspBytes(ws))

\* TRAP HALT without `running = 0`.
TrapHALT_keeps_running ==
    /\ Running
    /\ \E k \in KeyInputs(reg[R_PC]) :
         LET f == mem_read(memory, reg[R_PC], k)
             ins == f.val
         IN /\ Opcode(ins) = OP_TRAP
            /\ TrapVector(ins) = TRAP_HALT
            /\ Continue(ins, RegT, f.mem, f.io, {reg[R_PC]}, out \o HaltMsg)

\* running = 0 ends the loop; main restores the terminal and returns
\* EXIT_SUCCESS.
TrapHALT ==
    /\ Running
    /\ \E k \in KeyInputs(reg[R_PC]) :
         LET f == mem_read(memory, reg[R_PC], k)
             ins == f.val
         IN /\ Opcode(ins) = OP_TRAP
            /\ TrapVector(ins) = TRAP_HALT
            /\ Leave(ins, RegT, f.mem, f.io, {reg[R_PC]}, out \o HaltMsg,
                     "halted", original_tio, <<0>>)

\* A vector outside the trap table treated like a reserved opcode.
TrapOther_aborts ==
    /\ Running
    /\ \E k \in KeyInputs(reg[R_PC]) :
         LET f == mem_read(memory, reg[R_PC], k)
             ins == f.val
         IN /\ Opcode(ins) = OP_TRAP
            /\ TrapVector(ins) \notin
                 {TRAP_GETC, TRAP_OUT, TRAP_PUTS, TRAP_IN, TRAP_PUTSP, TRAP_HALT}
            /\ Leave(ins, RegT, f.mem, f.io, {reg[R_PC]}, out,
                     "aborted", tio, exitCode)

\* The inner switch has no default: any other vector only sets R7.
TrapOther ==
    /\ Running
    /\ \E k \in KeyInputs(reg[R_PC]) :
         LET f == mem_read(memory, reg[R_PC], k)
             ins == f.val
         IN /\ Opcode(ins) = OP_TRAP
            /\ TrapVector(ins) \notin
                 {TRAP_GETC, TRAP_OUT, TRAP_PUTS, TRAP_IN, TRAP_PUTSP, TRAP_HALT}
            /\ Continue(ins, RegT, f.mem, f.io, {reg[R_PC]}, out)

(***************************************************************************)
(* SIGINT, delivered at any time while the loop runs.                      *)
(***************************************************************************)
handle_interrupt ==
    /\ status = "running"
    /\ sigint
    /\ tio' = original_tio
    /\ out' = out \o <<10>>
    /\ status' = "interrupted"
    /\ exitCode' = <<-2>>
    /\ UNCHANGED << argv, charSigned, j, memory, reg, original_tio, sigint,
                    instr, steps, io, accessed, sx >>

Next ==
    \/ Start
    \/ LoadImage
    \/ Setup
    \/ ExecADD
    \/ ExecAND
    \/ ExecNOT
    \/ ExecBR
    \/ ExecJMP
    \/ ExecJSR
    \/ ExecLD
    \/ ExecLDI
    \/ ExecLDR
    \/ ExecLEA
    \/ ExecST
    \/ ExecSTI
    \/ ExecSTR
    \/ ExecReserved
    \/ TrapGETC
    \/ TrapOUT
    \/ TrapPUTS
    \/ TrapIN
    \/ TrapPUTSP
    \/ TrapHALT
    \/ TrapOther
    \/ handle_interrupt

Spec == Init /\ [][Next]_vars

(***************************************************************************)
(* sign_extend on its own: one call, on any pattern of any field width the *)
(* decoder passes to it.  The process itself does not start.               *)
(***************************************************************************)
\* The bit_count arguments at the call sites in main.
FieldWidths == {5, 6, 9, 11}

InitSignExtend ==
    /\ argv = <<>>
    /\ charSigned = FALSE
    /\ status = "start"
    /\ j = 1
    /\ memory = EmptyMemory
    /\ reg = [r \in 0 .. (R_COUNT - 1) |-> 0]
    /\ tio = Cooked
    /\ original_tio = [ICANON |-> FALSE, ECHO |-> FALSE]
    /\ sigint = FALSE
    /\ exitCode = <<>>
    /\ instr = 0
    /\ steps = 0
    /\ io = <<>>
    /\ accessed = {}
    /\ out = <<>>
    /\ sx \in UNION { { [x |-> x, bit_count |-> n, ret |-> <<>>] :
                             x \in 0 .. (Pow2(n) - 1) } : n \in FieldWidths }

CallSignExtend ==
    /\ sx.bit_count \in FieldWidths
    /\ sx.ret = <<>>
    /\ sx' = [sx EXCEPT !.ret = <<sign_extend(sx.x, sx.bit_count)>>]
    /\ UNCHANGED << argv, charSigned, status, j, memory, reg, tio,
                    original_tio, sigint, exitCode, instr, steps, io,
                    accessed, out >>

SpecSignExtend == InitSignExtend /\ [][CallSignExtend]_vars

(***************************************************************************)
(* Properties.                                                             *)
(***************************************************************************)
\* The process has entered the fetch-execute loop.
InLoop == status \in {"running", "halted", "aborted", "interrupted", "crashed"}

\* This step is one iteration of the loop.
Stepped == steps' = steps + 1

\* The sign class of a 16-bit value, as a flag value.
SignClass(v) == IF v = 0 THEN FL_ZRO ELSE IF v >= 32768 THEN FL_NEG ELSE FL_POS

IsTrap(ins, vec) == Opcode(ins) = OP_TRAP /\ TrapVector(ins) = vec

\* C1: once main has set up the loop, the condition flag register holds
\* exactly one of FL_POS, FL_ZRO, FL_NEG: never 0, never two flag bits.
C1_CondIsOneFlag == InLoop => reg[R_COND] \in {FL_POS, FL_ZRO, FL_NEG}

\* C1 witness: an instruction has changed the flag away from its initial
\* FL_ZRO, and a later one has run on top of it.
C1_Witness == status = "running" /\ steps > 1 /\ reg[R_COND] = FL_NEG

ValueProducing(ins) ==
    \/ Opcode(ins) \in {OP_ADD, OP_AND, OP_NOT, OP_LD, OP_LDI, OP_LDR, OP_LEA}
    \/ IsTrap(ins, TRAP_GETC)
    \/ IsTrap(ins, TRAP_IN)

DestOf(ins) == IF Opcode(ins) = OP_TRAP THEN R_R0 ELSE DR(ins)

\* C2: after a step that executes ADD, AND, NOT, LD, LDI, LDR, LEA, TRAP
\* GETC or TRAP IN the condition flag is the sign class of the value now in
\* the destination register (R0 for the traps).
C2_FlagsFollowDest ==
    (steps > 0 /\ ValueProducing(instr))
        => reg[R_COND] = SignClass(reg[DestOf(instr)])

\* C2 witness: NOT has just written a value with bit 15 set and the flag is
\* FL_NEG.
C2_Witness ==
    /\ steps > 0
    /\ Opcode(instr) = OP_NOT
    /\ reg[DestOf(instr)] = 65533
    /\ reg[R_COND] = FL_NEG

\* C3: loading an image with origin o and n words, o + n <= 65536, puts
\* word i at address o + i and leaves every other address as it was.
C3_LoadPlacesWords ==
    [][ (status = "loading" /\ j' = j + 1)
          => LET f == Files[argv[j]]
                 o == f.origin
                 n == Len(f.words)
             IN (f.readable /\ o + n <= MEMORY_MAX)
                  => /\ \A i \in 1 .. n :
                          MemAt(memory', o + i - 1) = f.words[i]
                     /\ \A a \in ((DOMAIN memory) \cup (DOMAIN memory'))
                                    \ (o .. (o + n - 1)) :
                          MemAt(memory', a) = MemAt(memory, a) ]_vars

HaltedByTrap == status' = "halted" /\ IsTrap(instr', TRAP_HALT)

AbortedByReserved == status' = "aborted" /\ Opcode(instr') \in {OP_RTI, OP_RES}

\* C4 as stated: TRAP HALT takes the engine from running to halted, halted
\* is terminal (nothing changes afterwards), and the engine leaves running
\* only by TRAP HALT or by the abort on a reserved opcode.
C4_HaltOrAbortOnly ==
    [][ /\ (status = "halted" => UNCHANGED vars)
        /\ ((Stepped /\ IsTrap(instr', TRAP_HALT)) => status' = "halted")
        /\ ((status = "running" /\ status' # "running")
              => (HaltedByTrap \/ AbortedByReserved)) ]_vars

\* C4 amended: as above, but the engine also leaves running when SIGINT is
\* handled (handle_interrupt exits the process) and when a PUTS or PUTSP
\* scan running off the end of memory kills the process.
C4_HaltTerminal ==
    [][ /\ (status = "halted" => UNCHANGED vars)
        /\ ((Stepped /\ IsTrap(instr', TRAP_HALT)) => status' = "halted")
        /\ ((status = "running" /\ status' # "running")
              => \/ HaltedByTrap
                 \/ AbortedByReserved
                 \/ (status' = "interrupted" /\ UNCHANGED <<reg, memory, steps>>)
                 \/ /\ status' = "crashed"
                    /\ (IsTrap(instr', TRAP_PUTS) \/ IsTrap(instr', TRAP_PUTSP))
                    /\ MEMORY_MAX \in accessed' ) ]_vars

\* C4 witness: the engine is halted by TRAP HALT after other instructions.
C4_Witness ==
    status = "halted" /\ IsTrap(instr, TRAP_HALT) /\ steps > 1

\* C5: a fetched instruction with opcode RTI or RES always aborts the
\* process: it ends in the aborted state, with no exit status of its own,
\* and nothing is fetched or changed afterwards.
C5_ReservedAborts ==
    [][ /\ ((Stepped /\ Opcode(instr') \in {OP_RTI, OP_RES})
              => (status' = "aborted" /\ exitCode' = <<>>))
        /\ (status = "aborted" => UNCHANGED vars) ]_vars

\* C5 witness: RES was fetched after an ADD and the process is aborted.
C5_Witness == status = "aborted" /\ Opcode(instr) = OP_RES /\ steps = 2

\* C6: on every exit path taken after the terminal mode was changed
\* (normal halt, abort on a reserved opcode, interrupt) the terminal is
\* back in its original mode when the process ends.
C6_TerminalRestored ==
    status \in {"halted", "aborted", "interrupted"} => tio = Cooked

\* Some listed image cannot be opened or cannot be read.
SomeImageFails ==
    \E i \in 1 .. Len(argv) :
        ~Files[argv[i]].openable \/ ~Files[argv[i]].readable

\* C7: no image argument gives exit status 2; an image that cannot be
\* opened or read gives exit status 1 and no instruction executes; a run
\* that reaches TRAP HALT exits with status 0.
C7_ExitStatus ==
    /\ (Len(argv) = 0 /\ status # "start") => exitCode = <<2>>
    /\ SomeImageFails
         => /\ ~InLoop
            /\ steps = 0
            /\ (status \notin {"start", "loading"} => exitCode = <<1>>)
    /\ status = "halted" => exitCode = <<0>>

\* C8: a read of MR_KBSR (here by LDR) returns 0x8000 and leaves the pending
\* byte, a value in 0..255, in memory[MR_KBDR] when input is available, and
\* returns 0 otherwise; a read of any other address returns the stored word,
\* changes no cell and consumes no input.
C8_KeyboardRead ==
    [][ (Stepped /\ Opcode(instr') = OP_LDR /\ reg[R_PC] # MR_KBSR)
          => LET a == U16(reg[SR1(instr')] + sign_extend(BitAnd(instr', 63), 6))
                 v == reg'[DR(instr')]
             IN IF a = MR_KBSR
                THEN /\ io'[1].ready
                          => /\ v = 32768
                             /\ MemAt(memory', MR_KBDR) \in 0 .. 255
                             /\ MemAt(memory', MR_KBDR) = io'[1].ch
                     /\ ~io'[1].ready => v = 0
                ELSE /\ v = MemAt(memory, a)
                     /\ memory' = memory
                     /\ io' = <<>> ]_vars

\* C9: after TRAP GETC and after TRAP IN, for an input byte b in 0..255,
\* R0 = b, and the flag is FL_ZRO for b = 0 and FL_POS otherwise.
C9_InputZeroExtended ==
    (/\ steps > 0
     /\ (IsTrap(instr, TRAP_GETC) \/ IsTrap(instr, TRAP_IN))
     /\ io # <<>>
     /\ io[Len(io)].ch \in 0 .. 255)
        => /\ reg[R_R0] = io[Len(io)].ch
           /\ reg[R_COND] = (IF io[Len(io)].ch = 0 THEN FL_ZRO ELSE FL_POS)

\* C10: every cell index the loop uses (fetch, loads and stores, the
\* keyboard registers, the PUTS and PUTSP scans) lies in 0..65535.
C10_AccessInBounds == \A i \in accessed : i \in 0 .. (MEMORY_MAX - 1)

\* The cells an image file covers: those its words are meant for.
Covers(f, a) == a \in f.origin .. (f.origin + Len(f.words) - 1)

\* The arguments loaded so far that cover cell a.
Covering(a) == {i \in 1 .. (j - 1) : Covers(Files[argv[i]], a)}

Last(S) == CHOOSE i \in S : \A k \in S : k <= i

\* C11: with the images loaded in argument order, every address holds the
\* word of the last loaded image that covers it (so words of earlier images
\* not covered again are kept), an address no image covers is unchanged, and
\* a load fails only on a file that cannot be opened, never on an overlap.
C11_LastImageWins ==
    /\ (status \in {"loading", "running"} /\ steps = 0)
          => \A a \in (DOMAIN memory)
                        \cup UNION { Files[argv[i]].origin
                                       .. (Files[argv[i]].origin
                                             + Len(Files[argv[i]].words) - 1) :
                                     i \in 1 .. (j - 1) } :
               IF Covering(a) = {}
               THEN MemAt(memory, a) = 0
               ELSE LET f == Files[argv[Last(Covering(a))]]
                    IN MemAt(memory, a) = f.words[a - f.origin + 1]
    /\ status = "loadfail" => ~Files[argv[j]].openable

\* Bit i of a 16-bit value.
Bit(v, i) == (v \div Pow2(i)) % 2

\* The number an n-bit pattern stands for in two's complement.
TwosComplement(x, n) == IF x >= Pow2(n - 1) THEN x - Pow2(n) ELSE x

\* C12: for every field width n in {5, 6, 9, 11} and every n-bit pattern x,
\* sign_extend(x, n) has bit n-1 of x in bits n..15 and x in its low n bits
\* (truncating it to n bits gives x), and it equals the two's-complement
\* value of x modulo 2^16.
C12_SignExtend ==
    sx.ret # <<>>
        => LET x == sx.x
               n == sx.bit_count
               y == sx.ret[1]
           IN /\ y \in 0 .. (MEMORY_MAX - 1)
              /\ \A i \in n .. 15 : Bit(y, i) = Bit(x, n - 1)
              /\ y % Pow2(n) = x
              /\ y = (TwosComplement(x, n) + MEMORY_MAX) % MEMORY_MAX

\* C12 witness: the 11-bit pattern 0x400, the most negative one, has been
\* extended to 0xFC00.
C12_Witness == sx.bit_count = 11 /\ sx.x = 1024 /\ sx.ret = <<64512>>

\* The n bits of v from bit lo upwards.
Slice(v, lo, n) == (v \div Pow2(lo)) % Pow2(n)

\* The 16-bit word for an integer.
Mod16(v) == (v + MEMORY_MAX) % MEMORY_MAX

\* The second operand of ADD and AND, from the registers rg.
Operand(ins, rg) ==
    IF Bit(ins, 5) = 1
    THEN Mod16(TwosComplement(Slice(ins, 0, 5), 5))
    ELSE rg[Slice(ins, 0, 3)]

\* C13: an ADD step leaves (SR1 + operand) mod 2^16 in DR and an AND step
\* the bitwise and of SR1 and operand, the operand being the sign-extended
\* imm5 when bit 5 is set and SR2 otherwise; a NOT step leaves the 16-bit
\* complement of SR1 in DR.  SR1, SR2 are the values before the step, also
\* when DR is one of them; a sum past 0xFFFF wraps and the loop goes on.
C13_Arithmetic ==
    [][ Stepped
          => LET ins == instr'
                 d == reg'[Slice(ins, 9, 3)]
                 s == reg[Slice(ins, 6, 3)]
                 o == Operand(ins, reg)
             IN /\ Opcode(ins) = OP_ADD => d = (s + o) % MEMORY_MAX
                /\ Opcode(ins) = OP_AND
                     => /\ d \in 0 .. (MEMORY_MAX - 1)
                        /\ \A i \in 0 .. 15 : Bit(d, i) = Bit(s, i) * Bit(o, i)
                /\ Opcode(ins) = OP_NOT
                     => /\ d \in 0 .. (MEMORY_MAX - 1)
                        /\ \A i \in 0 .. 15 : Bit(d, i) = 1 - Bit(s, i)
                /\ Opcode(ins) \in {OP_ADD, OP_AND, OP_NOT}
                     => status' = "running" ]_vars

\* C13 witness: with R0 = 5, ADD R1, R0, #-3 has left 2 in R1 and the flag
\* FL_POS.
C13_Witness ==
    /\ steps = 2
    /\ instr = ADDi(1, 0, -3)
    /\ reg[R_R0] = 5
    /\ reg[R_R0 + 1] = 2
    /\ reg[R_COND] = FL_POS

\* C14: a BR step fetched from address a ends with PC = a + 1 + sext9(offset)
\* (mod 2^16) when a bit of the mask in bits 11..9 is also set in the flag
\* register, and with PC = a + 1 otherwise; mask 000 never branches and mask
\* 111 always does.
C14_Branch ==
    [][ (Stepped /\ Opcode(instr') = OP_BR)
          => LET ins == instr'
                 a == reg[R_PC]
                 mask == Slice(ins, 9, 3)
                 target == Mod16(a + 1 + TwosComplement(Slice(ins, 0, 9), 9))
                 next == (a + 1) % MEMORY_MAX
                 shared == \E i \in 0 .. 2 :
                              Bit(mask, i) = 1 /\ Bit(reg[R_COND], i) = 1
             IN /\ reg'[R_PC] = IF shared THEN target ELSE next
                /\ mask = 0 => reg'[R_PC] = next
                /\ mask = 7 => reg'[R_PC] = target ]_vars

\* C14 witness: BRn with offset -6, fetched from 0x3006 with the flag
\* FL_NEG, has gone back to 0x3001.
C14_Witness ==
    /\ status = "running"
    /\ instr = BRc(4, -6)
    /\ reg[R_COND] = FL_NEG
    /\ reg[R_PC] = PC_START + 1

\* C15: a JSR/JSRR step stores the incremented PC in R7 and sets PC to
\* incremented PC + sext11(offset) (mod 2^16) when bit 11 is set, else to the
\* base register of bits 8..6 as it is after R7 was written (base R7: the
\* incremented PC).  A JMP step sets PC to the base register and changes no
\* other register, no memory cell, and writes nothing.
C15_Jumps ==
    [][ Stepped
          => LET ins == instr'
                 following == (reg[R_PC] + 1) % MEMORY_MAX
                 base == Slice(ins, 6, 3)
             IN /\ Opcode(ins) = OP_JSR
                     => /\ reg'[R_R7] = following
                        /\ reg'[R_PC] =
                             IF Bit(ins, 11) = 1
                             THEN Mod16(following
                                          + TwosComplement(Slice(ins, 0, 11), 11))
                             ELSE IF base = R_R7 THEN following ELSE reg[base]
                /\ Opcode(ins) = OP_JMP
                     => /\ reg'[R_PC] = reg[base]
                        /\ \A r \in (R_R0 .. R_R7) \cup {R_COND} :
                              reg'[r] = reg[r]
                        /\ reg[R_PC] # MR_KBSR => memory' = memory
                        /\ out' = out
                        /\ status' = "running" ]_vars

\* C15 witness: JSRR R7, fetched from 0x3000, has left both R7 and PC at
\* 0x3001.
C15_Witness ==
    /\ steps = 1
    /\ instr = JSRRr(R_R7)
    /\ reg[R_R7] = PC_START + 1
    /\ reg[R_PC] = PC_START + 1

\* The word a read of cell x returns in this step: the stored word, or for
\* the keyboard status cell the status as the read refreshes it (C8).
ReadAt(x) == IF x = MR_KBSR THEN MemAt(memory', x) ELSE MemAt(memory, x)

\* The incremented PC, and the two kinds of effective address.
Following == (reg[R_PC] + 1) % MEMORY_MAX

PCRelative(ins) == Mod16(Following + TwosComplement(Slice(ins, 0, 9), 9))

BaseRelative(ins) ==
    Mod16(reg[Slice(ins, 6, 3)] + TwosComplement(Slice(ins, 0, 6), 6))

\* The loads compute their addresses from the incremented PC and the base
\* register, modulo 2^16.
LoadsRead ==
    Stepped /\ reg[R_PC] # MR_KBSR
        => LET ins == instr'
               d == reg'[Slice(ins, 9, 3)]
           IN /\ Opcode(ins) = OP_LD => d = ReadAt(PCRelative(ins))
              /\ Opcode(ins) = OP_LDI => d = ReadAt(ReadAt(PCRelative(ins)))
              /\ Opcode(ins) = OP_LDR => d = ReadAt(BaseRelative(ins))

\* An LDI with offset 1 running on memory[0x3000] = 0x4000 and
\* memory[0x4000] = 0x002A.
ExampleLDI ==
    /\ Stepped
    /\ Opcode(instr') = OP_LDI
    /\ Slice(instr', 0, 9) = 1
    /\ MemAt(memory, PC_START) = 16384
    /\ MemAt(memory, 16384) = 42

\* C16 as stated: LD, LDI, LDR read memory[PC + sext9], memory[memory[PC +
\* sext9]], memory[BaseR + sext6] (mod 2^16, PC the incremented one), and in
\* the example the LDI with offset 1 fetched with PC at 0x2FFF loads 0x002A.
C16_LoadsAsStated ==
    [][ /\ LoadsRead
        /\ (ExampleLDI /\ reg[R_PC] = PC_START - 1)
              => reg'[Slice(instr', 9, 3)] = 42 ]_vars

\* C16 amended: the same addresses; in the example the LDI with offset 1
\* loads 0x002A when 0x2FFF is the incremented PC, that is when it was
\* fetched from 0x2FFE.
C16_Loads ==
    [][ /\ LoadsRead
        /\ (ExampleLDI /\ Following = PC_START - 1)
              => reg'[Slice(instr', 9, 3)] = 42 ]_vars

\* C16 witness: the LDI with offset 1 fetched from 0x2FFE, with 0x4000 at
\* 0x3000 and 0x002A at 0x4000, has loaded 0x002A into R1.
C16_Witness ==
    /\ instr = LDIo(1, 1)
    /\ reg[R_PC] = PC_START - 1
    /\ MemAt(memory, PC_START) = 16384
    /\ MemAt(memory, 16384) = 42
    /\ reg[R_R0 + 1] = 42

\* The cell a store step writes.
StoreTarget(ins) ==
    IF Opcode(ins) = OP_ST THEN PCRelative(ins)
    ELSE IF Opcode(ins) = OP_STI THEN ReadAt(PCRelative(ins))
    ELSE BaseRelative(ins)

\* The keyboard cells the pointer read of an STI refreshes.
PolledCells(ins) ==
    IF Opcode(ins) = OP_STI /\ PCRelative(ins) = MR_KBSR
    THEN {MR_KBSR, MR_KBDR}
    ELSE {}

\* C17: an ST, STI, STR step leaves the value of SR in one cell, at PC +
\* sext9, at memory[PC + sext9], at BaseR + sext6 (mod 2^16, PC the
\* incremented one), and changes no other cell and none of R0..R7; only the
\* keyboard status and data cells may change besides, when the pointer of
\* an STI is read from MR_KBSR.
C17_Stores ==
    [][ (/\ Stepped
         /\ reg[R_PC] # MR_KBSR
         /\ Opcode(instr') \in {OP_ST, OP_STI, OP_STR})
          => LET ins == instr'
                 target == StoreTarget(ins)
             IN /\ MemAt(memory', target) = reg[Slice(ins, 9, 3)]
                /\ \A a \in ((DOMAIN memory) \cup (DOMAIN memory'))
                               \ ({target} \cup PolledCells(ins)) :
                      MemAt(memory', a) = MemAt(memory, a)
                /\ \A r \in R_R0 .. R_R7 : reg'[r] = reg[r] ]_vars

\* C17 witness: an STI has read its pointer from MR_KBSR while a key was
\* ready and has stored R1 at 0x8000.
C17_Witness ==
    /\ instr = STIo(1, 0)
    /\ reg[R_PC] = MR_KBSR
    /\ MemAt(memory, MR_KBSR) = 32768
    /\ MemAt(memory, 32768) = reg[R_R0 + 1]
    /\ reg[R_R0 + 1] = STIo(1, 0)

\* C18: a step of ST, STI, STR, BR, JMP, JSR, JSRR, TRAP OUT, PUTS, PUTSP or
\* HALT leaves the condition flag as it was; a step that changes the flag
\* executes ADD, AND, NOT, LD, LDI, LDR, LEA, TRAP GETC or TRAP IN.
C18_FlagKept ==
    [][ Stepped
          => /\ (\/ Opcode(instr') \in {OP_ST, OP_STI, OP_STR, OP_BR, OP_JMP,
                                         OP_JSR}
                 \/ IsTrap(instr', TRAP_OUT)
                 \/ IsTrap(instr', TRAP_PUTS)
                 \/ IsTrap(instr', TRAP_PUTSP)
                 \/ IsTrap(instr', TRAP_HALT))
                  => reg'[R_COND] = reg[R_COND]
             /\ reg'[R_COND] # reg[R_COND] => ValueProducing(instr') ]_vars

\* C18 witness: an ST has run and the flag, set by an earlier instruction,
\* is not the sign class of the register the ST stored.
C18_Witness ==
    /\ steps > 1
    /\ Opcode(instr) = OP_ST
    /\ reg[R_COND] # FL_ZRO
    /\ reg[R_COND] # SignClass(reg[Slice(instr, 9, 3)])

RECURSIVE StringFrom(_, _, _)
\* The words from address c up to, not including, the first zero word, in
\* the address space of MEMORY_MAX cells; n cells are left to look at.
StringFrom(m, c, n) ==
    IF n = 0 \/ MemAt(m, c) = 0 THEN <<>>
    ELSE <<MemAt(m, c)>> \o StringFrom(m, (c + 1) % MEMORY_MAX, n - 1)

\* One character per word: its low 8 bits.
LowBytes(ws) == [i \in 1 .. Len(ws) |-> ws[i] % 256]

RECURSIVE Packed(_)
\* Per word its low byte, then its high byte when that is not zero.
Packed(ws) ==
    IF ws = <<>> THEN <<>>
    ELSE <<Head(ws) % 256>>
         \o (IF Head(ws) \div 256 # 0 THEN <<Head(ws) \div 256>> ELSE <<>>)
         \o Packed(Tail(ws))

\* C19: a TRAP PUTS step appends to the output the low 8 bits of each word
\* from address R0 up to, not including, the first zero word; a TRAP PUTSP
\* step appends per such word the low byte and then the high byte when it is
\* not zero.  Nothing is appended when memory[R0] = 0, and the step changes
\* no register but R7 and PC and no memory cell.
C19_Strings ==
    [][ (/\ Stepped
         /\ reg[R_PC] # MR_KBSR
         /\ (IsTrap(instr', TRAP_PUTS) \/ IsTrap(instr', TRAP_PUTSP)))
          => LET ws == StringFrom(memory, reg[R_R0], MEMORY_MAX)
             IN /\ out' = out \o (IF IsTrap(instr', TRAP_PUTS)
                                  THEN LowBytes(ws)
                                  ELSE Packed(ws))
                /\ \A r \in (R_R0 .. (R_R7 - 1)) \cup {R_COND} :
                      reg'[r] = reg[r]
                /\ memory' = memory ]_vars

\* C20: every TRAP step leaves the incremented PC in R7; when the vector
\* (low 8 bits) is none of 0x20..0x25 the step does nothing else: R0..R6,
\* the flag and memory are unchanged, no input is taken, nothing is
\* written, and the loop goes on at the following instruction.
C20_TrapLink ==
    [][ (Stepped /\ Opcode(instr') = OP_TRAP)
          => /\ reg'[R_R7] = Following
             /\ Slice(instr', 0, 8) \notin TRAP_GETC .. TRAP_HALT
                  => /\ \A r \in (R_R0 .. (R_R7 - 1)) \cup {R_COND} :
                           reg'[r] = reg[r]
                     /\ reg'[R_PC] = Following
                     /\ reg[R_PC] # MR_KBSR => (memory' = memory /\ io' = <<>>)
                     /\ out' = out
                     /\ status' = "running" ]_vars

\* C20 witness: TRAP 0xFF, fetched from 0x3004, has left 0x3005 in R7 and
\* in PC, and the loop is running.
C20_Witness ==
    /\ status = "running"
    /\ instr = TRAPv(255)
    /\ reg[R_R7] = PC_START + 5
    /\ reg[R_PC] = PC_START + 5

\* C21: whatever the origins of the loaded images, the loop is entered with
\* PC = 0x3000, the flag FL_ZRO and R0..R7 = 0, and the first instruction
\* executed is the word at memory[0x3000], also when no image covers that
\* address.
C21_StartState ==
    [][ /\ (status' = "running" /\ steps' = 0)
              => /\ reg'[R_PC] = PC_START
                 /\ reg'[R_COND] = FL_ZRO
                 /\ \A r \in R_R0 .. R_R7 : reg'[r] = 0
        /\ (Stepped /\ steps = 0)
              => /\ reg[R_PC] = PC_START
                 /\ instr' = MemAt(memory, PC_START)
                 /\ PC_START \in accessed' ]_vars

\* C21 witness: images were loaded, none of them covering 0x3000, and the
\* first instruction executed was the zero word found there.
C21_Witness ==
    /\ steps = 1
    /\ memory # EmptyMemory
    /\ \A i \in 1 .. Len(argv) : ~Covers(Files[argv[i]], PC_START)
    /\ instr = 0
    /\ accessed = {PC_START}
    /\ reg[R_PC] = PC_START + 1

====
